---- MODULE Spec2Model ----
(***************************************************************************)
(* State-machine model of the authenticated recording pipeline of          *)
(* RakurekoTwitCasting:                                                    *)
(*   - AuthenticatedRecordingEngine (src/src/authenticated_recording.py):  *)
(*     start, the retry task, one attempt on the auth_core path and on the *)
(*     Playwright fallback path, the process monitor task, stop_recording  *)
(*     and _cleanup_session, interleaved at their await points;            *)
(*   - the manifest wait of LimitedStreamAuth.authenticate_for_stream      *)
(*     (src/src/auth_core.py), with its polling loop and a clock.          *)
(* The engine part follows one accepted recording request (one             *)
(* RecordingSession object) through its life.                              *)
(***************************************************************************)
EXTENDS Integers, Sequences, FiniteSets, TLC

\* ---- bounds of the model ------------------------------------------------
MaxRetries == 3          \* options.max_retries is drawn from 0..MaxRetries

\* options.retry_base_delay values tried (the default is 5)
BaseDelays == {1, 5}

\* ---- SessionStatus ------------------------------------------------------
INITIALIZING == "initializing"
BROWSER_STARTING == "browser_starting"
AUTHENTICATING == "authenticating"
WAITING_FOR_STREAM == "waiting_for_stream"
RECORDING == "recording"
COMPLETED == "completed"
FAILED == "failed"
STOPPED == "stopped"
ERROR == "error"

SessionStatus ==
    {INITIALIZING, BROWSER_STARTING, AUTHENTICATING, WAITING_FOR_STREAM,
     RECORDING, COMPLETED, FAILED, STOPPED, ERROR}

VARIABLES
    limited_auth,          \* self.limited_auth and AUTH_CORE_AVAILABLE
    stream_passwords,      \* TRUE iff LimitedStreamAuth.stream_passwords holds the url
    options,               \* the RecordingOptions of the accepted request
    session,               \* the RecordingSession object (fields as in the dataclass)
    active_sessions,       \* TRUE iff session.session_id is a key of self.active_sessions
    proc,                  \* the capture subprocess as the OS sees it
    pc,                    \* position of the retry task, the monitor task, the stop call
    hist,                  \* history of the run (what the claims speak about)
    watch,                 \* state of the manifest wait (SpecWatch)
    profile,               \* users of the shared browser profile (SpecProfile)
    orch,                  \* the orchestrator's registry and calls (SpecOrch)
    cred,                  \* the cached cookie file and the clock (SpecCred)
    cli,                   \* the single-URL command of main() (SpecCli)
    dump,                  \* RecordingOptions objects and their repr (SpecDump)
    jar,                   \* a cookie list, its cookie file, the parse (SpecJar)
    route,                 \* a url and its authentication requirement (SpecRoute)
    cookie_file,           \* a cookie file, its writer and a reader (SpecFile)
    registry,              \* active_sessions under two cleanups (SpecRegistry)
    rec                    \* the basic RecordingEngine's recordings (SpecRec)

engineVars == <<limited_auth, stream_passwords, options,
                session, active_sessions, proc, pc, hist>>
sideVars == <<profile, orch, cred, cli, dump, jar, route, cookie_file, registry, rec>>
vars == <<limited_auth, stream_passwords, options,
          session, active_sessions, proc, pc, hist, watch, sideVars>>

\* RecordingOptions() with the fields the engine reads; password is TRUE iff a
\* non-empty password was supplied.
NoOptions ==
    [confirmed_by_user |-> FALSE, password |-> FALSE,
     max_retries |-> 0, retry_base_delay |-> 1]

\* The RecordingSession dataclass; exists = FALSE until
\* start_authenticated_recording constructs the object.  process is the
\* handle session.process (FALSE = None), browser_context the Playwright
\* context of the fallback path, session_dir its profile directory,
\* cookie_file the transient cookie file written for the capture tool.
NoSession ==
    [exists |-> FALSE, status |-> INITIALIZING, retry_count |-> 0,
     process |-> FALSE, browser_context |-> "none",
     m3u8_url |-> "none", cookie_header |-> FALSE, last_error |-> FALSE,
     session_dir |-> FALSE, cookie_file |-> FALSE]

\* OS view of the capture subprocess: state none/running/exited, the signal
\* sent to it, its exit code once exited, and whether session.output_file
\* exists in the temporary directory when it exits.
NoProc ==
    [state |-> "none", signalled |-> "none", returncode |-> 0,
     output_file |-> FALSE]

\* retry: position of _execute_recording_session_with_retry; ret / m3u8: its
\* pending return value and the local m3u8_url of authenticate_for_stream;
\* monitor: position of _monitor_recording_process; stop: of stop_recording.
pcInit ==
    [retry |-> "none", ret |-> FALSE, m3u8 |-> "none", auth_context |-> FALSE,
     monitor |-> "none", stop |-> "idle", grace |-> 0]

\* lastStart: the latest start call (none / rejected / accepted);
\* attempts, launches: attempts begun, capture subprocesses created;
\* slept: the backoff sleeps [n, delay]; refreshed, waitOutcome, lastFail: what
\* happened in the current attempt; barrier: what the barrier handling of the
\* current attempt met (password_missing: a password input and no password
\* to fill in); stop*: the state the stop call found
\* (status, position of the retry task, state of the process behind the
\* handle, attempts so far) and what it returned; orphaned: a browser context
\* was still open when the next attempt overwrote session.browser_context, the
\* only reference to it.
histInit ==
    [lastStart |-> "none",
     attempts |-> 0, launches |-> 0, slept |-> {},
     refreshed |-> "none", waitOutcome |-> "none", lastFail |-> "none",
     barrier |-> "none",
     stopCalled |-> FALSE, stopAt |-> "none", stopPhase |-> "none",
     stopProc |-> "none", stopAttempts |-> 0, stopRet |-> "none",
     stopBy |-> "none",
     orphaned |-> FALSE]

EngineInit ==
    /\ limited_auth \in BOOLEAN
    /\ stream_passwords = FALSE
    /\ options = NoOptions
    /\ session = NoSession
    /\ active_sessions = FALSE
    /\ proc = NoProc
    /\ pc = pcInit
    /\ hist = histInit

\* ---- helpers ---------------------------------------------------------------
Pow2(n) == IF n <= 0 THEN 1 ELSE 2 ^ n

\* line 161: delay = options.retry_base_delay * (2 ** (session.retry_count - 1))
RetryDelay_Shifted(base, n) == base * Pow2(n)
RetryDelay(base, n) == base * Pow2(n - 1)

\* line 169: the delay of the except branch of the retry loop.  No step of an
\* attempt raises into that branch (_execute_recording_session and
\* _cleanup_session catch every Exception), so no action uses it.
RetryDelayOnException(base, n) == base * Pow2(n)

\* the four state components an engine step assigns
Commit(s, a, h, p) ==
    /\ session' = s
    /\ active_sessions' = a
    /\ hist' = h
    /\ pc' = p

\* _cleanup_session after its await: remove the profile directory, delete the
\* registry entry
Cleaned(s) == [s EXCEPT !.session_dir = FALSE]

\* _cleanup_session awaits browser_context.close() only for a context that is
\* set and not yet being closed
CleanupSuspends(s) == s.browser_context = "open"

\* _cleanup_session resumes from close(): the context it was closing is closed
\* (session.browser_context may by now refer to a context opened later), then
\* the profile directory and the registry entry go
AfterClose(s) ==
    Cleaned([s EXCEPT !.browser_context = IF @ = "closing" THEN "closed" ELSE @])


\* ---- start_authenticated_recording ------------------------------------------
OptionsInputs ==
    [confirmed_by_user : BOOLEAN, password : BOOLEAN,
     max_retries : 0..MaxRetries, retry_base_delay : BaseDelays]

\* lines 135-143 for an accepted request
Accept(o) ==
    /\ ~session.exists
    /\ options' = o
    /\ Commit([NoSession EXCEPT !.exists = TRUE, !.status = INITIALIZING],
              TRUE,
              [hist EXCEPT !.lastStart =
                  IF o.confirmed_by_user THEN "accepted" ELSE "accepted_unconfirmed"],
              [pc EXCEPT !.retry = "loop"])

\* lines 131-133: no session, no task, False
Reject ==
    /\ hist' = [hist EXCEPT !.lastStart = "rejected"]
    /\ UNCHANGED <<options, session, active_sessions, pc>>

start_NoConfirmationCheck ==
    /\ \E o \in OptionsInputs : Accept(o)
    /\ UNCHANGED <<limited_auth, stream_passwords, proc, watch, sideVars>>

\* The model follows one accepted request: a confirmed request is taken while
\* no RecordingSession has been constructed; an unconfirmed one at any time.
start_authenticated_recording ==
    /\ \E confirmed_by_user \in BOOLEAN :
         IF ~confirmed_by_user
         THEN Reject
         ELSE \E o \in OptionsInputs : o.confirmed_by_user /\ Accept(o)
    /\ UNCHANGED <<limited_auth, stream_passwords, proc, watch, sideVars>>

\* auth_core.py 368-370, called at line 185 by an attempt of an earlier request
\* for the same url that was made with a password and is over when the request
\* the model follows is made: the engine's one LimitedStreamAuth keeps the
\* entry, nothing deletes from stream_passwords
set_stream_password ==
    /\ limited_auth
    /\ ~session.exists
    /\ ~stream_passwords
    /\ stream_passwords' = TRUE
    /\ UNCHANGED <<limited_auth, options, session, active_sessions, proc, pc,
                   hist, watch, sideVars>>

\* ---- the retry task: _execute_recording_session_with_retry --------------------
\* lines 172-174: the loop is over; status FAILED, then _cleanup_session
Final(s, a, h, p) ==
    LET s1 == [s EXCEPT !.status = FAILED] IN
    IF CleanupSuspends(s1)
    THEN Commit([s1 EXCEPT !.browser_context = "closing"], a, h,
                [p EXCEPT !.retry = "final_cleanup"])
    ELSE Commit(Cleaned(s1), FALSE, h, [p EXCEPT !.retry = "done"])

\* the loop body without the return of line 158
Continue_IgnoresSuccess(s, a, h, p) ==
    IF s.retry_count < options.max_retries
    THEN Commit(s, a, h, [p EXCEPT !.retry = "backoff"])
    ELSE Commit(s, a, h, [p EXCEPT !.retry = "done"])

\* lines 157-163: the attempt returned p.ret
Continue(s, a, h, p) ==
    IF p.ret
    THEN Commit(s, a, h, [p EXCEPT !.retry = "done"])
    ELSE IF s.retry_count < options.max_retries
         THEN Commit(s, a,
                     [h EXCEPT !.slept = @ \cup
                        {[n |-> s.retry_count,
                          delay |-> RetryDelay(options.retry_base_delay,
                                               s.retry_count)]}],
                     [p EXCEPT !.retry = "backoff"])
         ELSE Final(s, a, h, p)

\* lines 216-218: the finally of _execute_recording_session
AttemptReturn(s, a, h, p) ==
    IF s.status # RECORDING
    THEN IF CleanupSuspends(s)
         THEN Commit([s EXCEPT !.browser_context = "closing"], a, h,
                     [p EXCEPT !.retry = "attempt_cleanup"])
         ELSE Continue(Cleaned(s), FALSE, h, p)
    ELSE Continue(s, a, h, p)

\* lines 201-204: auth_result["success"] is false
AuthFail(s, a, h, p) ==
    AttemptReturn([s EXCEPT !.status = FAILED], a, h,
                  [p EXCEPT !.ret = FALSE, !.auth_context = FALSE])

\* lines 152-157 and 179-192 / 207-209, 298-305: loop test, next attempt up to
\* its first await.  PLAYWRIGHT_AVAILABLE is true in every running engine (the
\* RecordingSession dataclass needs the imported BrowserContext to be defined),
\* so the branches of lines 298-300 and auth_core.py 374-375 are not taken.
RetryLoop ==
    /\ pc.retry \in {"loop", "backoff"}
    /\ IF session.retry_count >= options.max_retries
       THEN /\ Final(session, active_sessions, hist, pc)
            /\ UNCHANGED stream_passwords
       ELSE LET s1 == [session EXCEPT !.retry_count = @ + 1,
                                      !.status = AUTHENTICATING]
                h1 == [hist EXCEPT !.attempts = @ + 1, !.refreshed = "none",
                                       !.waitOutcome = "none", !.lastFail = "none",
                                       !.barrier = "none"]
            IN  IF limited_auth
                THEN /\ stream_passwords' = (stream_passwords \/ options.password)
                     /\ Commit(s1, active_sessions, h1,
                               [pc EXCEPT !.retry = "auth_refresh"])
                ELSE /\ UNCHANGED stream_passwords
                     /\ Commit([s1 EXCEPT !.status = BROWSER_STARTING],
                               active_sessions, h1,
                               [pc EXCEPT !.retry = "fb_browser"])
    /\ UNCHANGED <<limited_auth, options, proc, watch, sideVars>>

\* the retry task resumes from the close() awaited by the attempt's cleanup
AttemptCleanupResume ==
    /\ pc.retry = "attempt_cleanup"
    /\ Continue(AfterClose(session), FALSE,
                hist, pc)
    /\ UNCHANGED <<limited_auth, stream_passwords, options,
                   proc, watch, sideVars>>

\* the retry task resumes from the close() awaited by the final cleanup
FinalCleanupResume ==
    /\ pc.retry = "final_cleanup"
    /\ Commit(AfterClose(session), FALSE,
              hist, [pc EXCEPT !.retry = "done"])
    /\ UNCHANGED <<limited_auth, stream_passwords, options,
                   proc, watch, sideVars>>

\* ---- one attempt on the auth_core path: authenticate_for_stream ----------------
EngineFrame ==
    UNCHANGED <<limited_auth, stream_passwords, options,
                proc, watch, sideVars>>

\* auth_core.py 379-388: auto_refresh_if_needed (its result is only logged),
\* then launch_persistent_context on the shared profile directory
AuthRefresh ==
    /\ pc.retry = "auth_refresh"
    /\ \E cookie_updated \in BOOLEAN, launched \in BOOLEAN :
         LET h1 == [hist EXCEPT !.refreshed =
                       IF cookie_updated THEN "ok" ELSE "failed"]
         IN  IF launched
             THEN Commit(session, active_sessions, h1,
                         [pc EXCEPT !.retry = "auth_goto", !.auth_context = TRUE])
             ELSE AuthFail(session, active_sessions, h1, pc)
    /\ EngineFrame

\* auth_core.py 390-394: page.goto(url)
AuthGoto ==
    /\ pc.retry = "auth_goto"
    /\ \E loaded \in BOOLEAN :
         IF loaded
         THEN Commit(session, active_sessions, hist,
                     [pc EXCEPT !.retry = "auth_barriers"])
         ELSE AuthFail(session, active_sessions, hist, pc)
    /\ EngineFrame

\* auth_core.py 311-338 and 397-402: handle_stream_barriers with the password
\* remembered for the url; page is what the stream page shows
AuthBarriers ==
    /\ pc.retry = "auth_barriers"
    /\ \E page \in {"open", "password_input", "error"} :
         LET password == stream_passwords IN
         IF page = "open" \/ (page = "password_input" /\ password)
         THEN Commit(session, active_sessions,
                     [hist EXCEPT !.barrier = "passed"],
                     [pc EXCEPT !.retry = "auth_wait"])
         ELSE AuthFail(session, active_sessions,
                       IF page = "password_input"
                       THEN [hist EXCEPT !.lastFail = "password_required",
                                         !.barrier = "password_missing"]
                       ELSE hist,
                       pc)
    /\ EngineFrame

\* Variant of the wait without lines 439-442: no URL after a timeout.
AuthWaitResult_NoFallback(outcome) ==
    IF outcome = "detected" THEN "manifest" ELSE "none"

\* auth_core.py 404-442: the manifest wait as the attempt sees it: a detected
\* manifest URL, or after the whole wait the page URL as fallback
AuthWaitResult(outcome) == IF outcome = "detected" THEN "manifest" ELSE "page_url"

AuthWait ==
    /\ pc.retry = "auth_wait"
    /\ \E outcome \in {"detected", "timeout"} :
         Commit(session, active_sessions,
                [hist EXCEPT !.waitOutcome = outcome],
                [pc EXCEPT !.retry = "auth_cookies",
                           !.m3u8 = AuthWaitResult(outcome)])
    /\ EngineFrame

\* auth_core.py 444-461 and authenticated_recording.py 194-200, 225-262:
\* context.cookies(), close, success result; the session takes the result,
\* status RECORDING, the cookie file is written, create_subprocess_exec awaited
AuthCookies ==
    /\ pc.retry = "auth_cookies"
    /\ \E got \in {"cookies", "empty", "error"} :
         IF got = "error"
         THEN AuthFail(session, active_sessions, hist, pc)
         ELSE Commit([session EXCEPT !.m3u8_url = pc.m3u8,
                                     !.cookie_header = (got = "cookies"),
                                     !.cookie_file = @ \/ (got = "cookies"),
                                     !.status = RECORDING],
                     active_sessions,
                     hist,
                     [pc EXCEPT !.retry = "launch", !.auth_context = FALSE])
    /\ EngineFrame

\* ---- one attempt on the fallback path: _execute_fallback_recording ------------
\* lines 305-308, 333-350: _ensure_browser_session; on success the new
\* context replaces whatever session.browser_context held, status
\* AUTHENTICATING and new_page() awaited; on failure the except of line 324
FbBrowser ==
    /\ pc.retry = "fb_browser"
    /\ \E started \in BOOLEAN, dir_made \in BOOLEAN :
         IF started
         THEN Commit([session EXCEPT !.browser_context = "open",
                                     !.session_dir = TRUE,
                                     !.status = AUTHENTICATING],
                     active_sessions,
                     [hist EXCEPT !.orphaned =
                         @ \/ session.browser_context = "open"],
                     [pc EXCEPT !.retry = "fb_goto"])
         ELSE AttemptReturn([session EXCEPT !.session_dir = @ \/ dir_made,
                                            !.last_error = TRUE],
                            active_sessions,
                            [hist EXCEPT !.lastFail = "browser_start"],
                            [pc EXCEPT !.ret = FALSE])
    /\ EngineFrame

\* lines 308-313, 352-359: new_page, goto, _handle_stream_barriers, which
\* fills a password in only when one was given and reports nothing; page is
\* what the stream page shows
FbGoto ==
    /\ pc.retry = "fb_goto"
    /\ \E r \in {"ok", "new_page_error", "goto_error"},
          page \in {"open", "password_input"} :
         CASE r = "ok" ->
                Commit([session EXCEPT !.status = WAITING_FOR_STREAM],
                       active_sessions,
                       [hist EXCEPT !.barrier =
                           IF page = "password_input" /\ ~options.password
                           THEN "password_missing" ELSE "passed"],
                       [pc EXCEPT !.retry = "fb_wait"])
           [] r = "new_page_error" ->
                AttemptReturn([session EXCEPT !.last_error = TRUE],
                              active_sessions,
                              [hist EXCEPT !.lastFail = "new_page"],
                              [pc EXCEPT !.ret = FALSE])
           [] r = "goto_error" ->
                Commit([session EXCEPT !.last_error = TRUE], active_sessions,
                       hist, [pc EXCEPT !.retry = "fb_page_close", !.ret = FALSE])
    /\ EngineFrame

\* lines 314-321, 390-403: _wait_for_stream_start; None -> FAILED, else
\* RECORDING and _export_fresh_cookies awaited
FbWait ==
    /\ pc.retry = "fb_wait"
    /\ \E outcome \in {"detected", "timeout"} :
         LET h1 == [hist EXCEPT !.waitOutcome = outcome] IN
         IF outcome = "detected"
         THEN Commit([session EXCEPT !.status = RECORDING], active_sessions,
                     h1,
                     [pc EXCEPT !.retry = "fb_cookies"])
         ELSE Commit([session EXCEPT !.status = FAILED], active_sessions,
                     h1,
                     [pc EXCEPT !.retry = "fb_page_close", !.ret = FALSE])
    /\ EngineFrame

\* lines 405-426 and 428-445: the cookie file is exported (or None on error),
\* then create_subprocess_exec is awaited
FbCookies ==
    /\ pc.retry = "fb_cookies"
    /\ \E exported \in BOOLEAN :
         Commit([session EXCEPT !.cookie_file = @ \/ exported], active_sessions,
                hist, [pc EXCEPT !.retry = "launch"])
    /\ EngineFrame

\* lines 329-331: finally: await page.close(), then back in
\* _execute_recording_session
FbPageClose ==
    /\ pc.retry = "fb_page_close"
    /\ AttemptReturn(session, active_sessions, hist, pc)
    /\ EngineFrame

\* ---- launching the capture subprocess -----------------------------------------
\* lines 257-270 / 443-451: create_subprocess_exec returns (process handle set,
\* monitor task created, True) or raises (False)
Launch ==
    /\ pc.retry = "launch"
    /\ \E created \in BOOLEAN :
         LET s1 == [session EXCEPT !.process = @ \/ created]
             h1 == [hist EXCEPT !.launches = @ + (IF created THEN 1 ELSE 0)]
             p1 == [pc EXCEPT !.ret = created,
                              !.monitor = IF created THEN "communicate" ELSE @]
         IN  /\ proc' = IF created
                        THEN [NoProc EXCEPT !.state = "running"]
                        ELSE proc
             /\ IF limited_auth
                THEN AttemptReturn(s1, active_sessions, h1, p1)
                ELSE Commit(s1, active_sessions, h1,
                            [p1 EXCEPT !.retry = "fb_page_close"])
    /\ UNCHANGED <<limited_auth, stream_passwords, options,
                   watch, sideVars>>

\* the capture subprocess ends: by itself with code 0 or 1, or on the signal;
\* it has written its output file or not
ExitCodes(signalled) ==
    CASE signalled = "none" -> {0, 1}
      [] signalled = "term" -> {0, -15}
      [] signalled = "kill" -> {-9}

ProcExit ==
    /\ proc.state = "running"
    /\ \E code \in ExitCodes(proc.signalled), written \in BOOLEAN :
         \* the file is looked at after a zero exit only (line 466)
         /\ code # 0 => ~written
         /\ proc' = [proc EXCEPT !.state = "exited", !.returncode = code,
                                 !.output_file = written]
    /\ UNCHANGED <<limited_auth, stream_passwords, options,
                   session, active_sessions, pc, hist, watch, sideVars>>

\* ---- the monitor task: _monitor_recording_process -----------------------------
\* lines 461-475: the status the monitor assigns from the exit code
MonitorStatus(s, code) == IF code = 0 THEN COMPLETED ELSE FAILED

\* lines 459-488: communicate() returned; status from the exit code; finally:
\* unlink the cookie file, _cleanup_session
MonitorExit ==
    /\ pc.monitor = "communicate"
    /\ proc.state = "exited"
    /\ LET s1 == [session EXCEPT !.status = MonitorStatus(session, proc.returncode),
                                 !.cookie_file = FALSE]
       IN  IF CleanupSuspends(s1)
           THEN Commit([s1 EXCEPT !.browser_context = "closing"],
                       active_sessions, hist, [pc EXCEPT !.monitor = "cleanup"])
           ELSE Commit(Cleaned(s1), FALSE, hist, [pc EXCEPT !.monitor = "done"])
    /\ EngineFrame

\* the monitor resumes from the close() awaited by its cleanup
MonitorCleanupResume ==
    /\ pc.monitor = "cleanup"
    /\ Commit(AfterClose(session), FALSE,
              hist, [pc EXCEPT !.monitor = "done"])
    /\ EngineFrame

\* ---- stop_recording ------------------------------------------------------------
\* lines 530-532: _cleanup_session, return True
StopCleanup(s, a, h, p) ==
    IF CleanupSuspends(s)
    THEN Commit([s EXCEPT !.browser_context = "closing"], a, h,
                [p EXCEPT !.stop = "cleanup", !.grace = 0])
    ELSE Commit(Cleaned(s), FALSE, [h EXCEPT !.stopRet = "true"],
                [p EXCEPT !.stop = "idle", !.grace = 0])

\* The model follows one stop request for the session's url.
\* lines 509-525: look the session up by url; not found -> False; else status
\* STOPPED, terminate() and wait for the exit, or cleanup when there is no
\* process handle.  terminate() on a process whose exit the loop has already
\* seen either does nothing or raises ProcessLookupError (-> except, False).
StopCall(by) ==
    /\ pc.stop = "idle"
    /\ ~hist.stopCalled
    /\ session.exists
    /\ LET h1 == [hist EXCEPT !.stopCalled = TRUE,
                              !.stopBy = by,
                              !.stopAt = session.status,
                              !.stopPhase = pc.retry,
                              !.stopProc = IF session.process
                                           THEN proc.state ELSE "none",
                              !.stopAttempts = hist.attempts,
                              !.stopRet = "pending"]
           s1 == [session EXCEPT !.status = STOPPED]
       IN  IF ~active_sessions
           THEN /\ Commit(session, active_sessions,
                          [h1 EXCEPT !.stopRet = "false"], pc)
                /\ UNCHANGED proc
           ELSE IF ~s1.process
           THEN /\ StopCleanup(s1, active_sessions, h1, pc)
                /\ UNCHANGED proc
           ELSE IF proc.state = "running"
           THEN /\ Commit(s1, active_sessions, h1, [pc EXCEPT !.stop = "wait"])
                /\ proc' = [proc EXCEPT !.signalled = "term"]
           ELSE /\ \/ Commit(s1, active_sessions, h1, [pc EXCEPT !.stop = "wait"])
                   \/ Commit(s1, active_sessions,
                             [h1 EXCEPT !.stopRet = "false"], pc)
                /\ UNCHANGED proc

\* the stop request comes from a caller of stop_recording(url)
stop_recording ==
    /\ StopCall("stop_recording")
    /\ UNCHANGED <<limited_auth, stream_passwords, options,
                   watch, sideVars>>

\* lines 551-563: shutdown() snapshots active_sessions and awaits
\* stop_recording(session.url) for each session of the snapshot, the first one
\* before any suspension; for the session followed that is the stop request,
\* and when the session is not registered nothing is stopped.  Lines 560-562
\* then stop the engine's Playwright instance, of which the model holds no
\* state: the stop call's cleanup has closed the session's context, and a later
\* attempt starts a new instance (line 336).  shutdown() has returned when the
\* stop call has.
shutdown ==
    /\ StopCall("shutdown")
    /\ UNCHANGED <<limited_auth, stream_passwords, options,
                   watch, sideVars>>

\* line 525: the timeout of asyncio.wait_for, in seconds
stop_grace == 10

\* a second of the grace period passes while stop_recording waits (pc.grace
\* counts them)
StopGraceTick ==
    /\ pc.stop = "wait"
    /\ pc.grace < stop_grace
    /\ pc' = [pc EXCEPT !.grace = @ + 1]
    /\ UNCHANGED <<limited_auth, stream_passwords, options, proc,
                   session, active_sessions, hist, watch, sideVars>>

\* line 525: process.wait() returned within the grace period
StopWaitDone ==
    /\ pc.stop = "wait"
    /\ proc.state = "exited"
    /\ StopCleanup(session, active_sessions, hist, pc)
    /\ EngineFrame

\* variant that kills without waiting for the grace period to elapse
StopTimeout_NoGrace ==
    /\ pc.stop = "wait"
    /\ proc.state = "running"
    /\ proc' = [proc EXCEPT !.signalled = "kill"]
    /\ pc' = [pc EXCEPT !.stop = "kill_wait", !.grace = 0]
    /\ UNCHANGED <<limited_auth, stream_passwords, options,
                   session, active_sessions, hist, watch, sideVars>>

\* lines 526-528: the 10 s of wait_for elapsed with the process still running:
\* kill(), then wait again
StopTimeout ==
    /\ pc.stop = "wait"
    /\ pc.grace = stop_grace
    /\ proc.state = "running"
    /\ proc' = [proc EXCEPT !.signalled = "kill"]
    /\ pc' = [pc EXCEPT !.stop = "kill_wait", !.grace = 0]
    /\ UNCHANGED <<limited_auth, stream_passwords, options,
                   session, active_sessions, hist, watch, sideVars>>

\* line 528: process.wait() returned after the kill
StopKillWaitDone ==
    /\ pc.stop = "kill_wait"
    /\ proc.state = "exited"
    /\ StopCleanup(session, active_sessions, hist, pc)
    /\ EngineFrame

\* stop_recording resumes from the close() awaited by its cleanup
StopCleanupResume ==
    /\ pc.stop = "cleanup"
    /\ Commit(AfterClose(session), FALSE,
              [hist EXCEPT !.stopRet = "true"], [pc EXCEPT !.stop = "idle"])
    /\ EngineFrame

\* ---- the manifest wait ------------------------------------------------------------
\* auth_core.py 404-456 (authenticate_for_stream), group_stream_recorder.py
\* 228-264 (_wait_for_stream_with_m3u8_detection): a response handler and a
\* polling loop; authenticated_recording.py 390-403 (_wait_for_stream_start):
\* page.expect_response.  A URL is a sequence of pieces; time is in seconds.
MaxResponses == 3        \* responses seen during one wait
MaxTimeoutMinutes == 2   \* options.timeout_minutes is drawn from 1..MaxTimeoutMinutes

max_wait == 300
wait_interval == 5
scroll_pause == 1

NoUrl == <<>>
PageUrl == <<"https://twitcasting.tv/user">>
ResponseUrls ==
    {<<"https://cdn/a/playlist", ".m3u8">>,
     <<"https://cdn/b/playlist", ".m3u8", "?t=2">>,
     <<"https://twitcasting.tv/js/player", ".js">>}

\* '.m3u8' in response.url
IsManifest(url) == \E k \in 1..Len(url) : url[k] = ".m3u8"

WatchKinds == {"auth_core", "group", "expect_response"}

\* m3u8_url: the nonlocal of the handler; i: the loop variable; timeout: the
\* bound of the wait in seconds; first, count: the first matching response and
\* the number of responses so far; result: what the wait returned.
WatchStart(kind, minutes) ==
    [pc |-> IF kind = "expect_response" THEN "expect" ELSE "check",
     kind |-> kind, i |-> 0, elapsed |-> 0,
     timeout |-> IF kind = "expect_response" THEN minutes * 60 ELSE max_wait,
     m3u8_url |-> NoUrl, first |-> NoUrl, count |-> 0, result |-> NoUrl]

watchIdle == [WatchStart("auth_core", 1) EXCEPT !.pc = "idle"]

\* handle_response (auth_core.py 410-414, group_stream_recorder.py 230-234)
handle_response(w, url) ==
    IF IsManifest(url) THEN [w EXCEPT !.m3u8_url = url] ELSE w

\* what the wait hands back once the loop is over: auth_core.py 439-442 puts
\* the page URL in place of a missing manifest URL, group_stream_recorder.py
\* 259-264 returns None
AfterLoop(w) ==
    IF w.kind = "auth_core"
    THEN [w EXCEPT !.pc = "cookies",
                   !.m3u8_url = IF @ = NoUrl THEN PageUrl ELSE @]
    ELSE [w EXCEPT !.pc = "returned", !.result = w.m3u8_url]

\* for i in range(0, max_wait, wait_interval): if m3u8_url: break; scroll,
\* then sleep(1) is awaited
WatchCheck ==
    /\ watch.pc = "check"
    /\ watch' = IF watch.i >= max_wait \/ watch.m3u8_url # NoUrl
                THEN AfterLoop(watch)
                ELSE [watch EXCEPT !.pc = "sleep_scroll"]
    /\ UNCHANGED <<engineVars, sideVars>>

\* asyncio.sleep(1) is over; the second scroll, then sleep(wait_interval)
WatchSleepScroll ==
    /\ watch.pc = "sleep_scroll"
    /\ watch' = [watch EXCEPT !.pc = "sleep_interval",
                              !.elapsed = @ + scroll_pause]
    /\ UNCHANGED <<engineVars, sideVars>>

\* asyncio.sleep(wait_interval) is over; next i
WatchSleepInterval ==
    /\ watch.pc = "sleep_interval"
    /\ watch' = [watch EXCEPT !.pc = "check",
                              !.elapsed = @ + wait_interval,
                              !.i = @ + wait_interval]
    /\ UNCHANGED <<engineVars, sideVars>>

\* auth_core.py 444-456: context.cookies() is over; the result is built from
\* m3u8_url as it is now
WatchCookies ==
    /\ watch.pc = "cookies"
    /\ watch' = [watch EXCEPT !.pc = "returned", !.result = watch.m3u8_url]
    /\ UNCHANGED <<engineVars, sideVars>>

\* a network response arrives while the page is open
WatchResponse ==
    /\ watch.pc \in {"check", "sleep_scroll", "sleep_interval", "cookies", "expect"}
    /\ watch.count < MaxResponses
    /\ \E url \in ResponseUrls :
         LET w == [watch EXCEPT !.count = @ + 1,
                                !.first = IF @ = NoUrl /\ IsManifest(url)
                                          THEN url ELSE @]
         IN  watch' = IF watch.pc = "expect"
                      THEN IF IsManifest(url)
                           THEN [w EXCEPT !.pc = "returned", !.result = url]
                           ELSE w
                      ELSE handle_response(w, url)
    /\ UNCHANGED <<engineVars, sideVars>>

\* a minute passes in page.expect_response
WatchTick ==
    /\ watch.pc = "expect"
    /\ watch.elapsed < watch.timeout
    /\ watch' = [watch EXCEPT !.elapsed = @ + 60]
    /\ UNCHANGED <<engineVars, sideVars>>

\* authenticated_recording.py 401-403: the timeout of expect_response -> None
WatchTimeout ==
    /\ watch.pc = "expect"
    /\ watch.elapsed = watch.timeout
    /\ watch' = [watch EXCEPT !.pc = "returned", !.result = NoUrl]
    /\ UNCHANGED <<engineVars, sideVars>>

\* ---- users of the shared browser profile --------------------------------------------
\* auth_core.py 47, 102-142, 340-358, 372-465: every authenticate_for_stream of
\* the engine's one LimitedStreamAuth, and every cookie refresh, launches a
\* persistent context on TwitCastingAuth.user_data_dir.  session_a and
\* session_b are the attempts of two recording sessions, cookie_refresh a
\* separate auto_refresh_if_needed call.
ProfileUsers == {"session_a", "session_b", "cookie_refresh"}

profileIdle == [u \in ProfileUsers |-> "idle"]

\* positions at which the user holds an open context on the profile directory
ProfileOpen == {"refresh_open", "auth_open", "auth_wait"}

\* where a user goes once its cookie refresh is over (auth_core.py 379-384: the
\* result of the refresh is only logged)
AfterRefresh(u) == IF u = "cookie_refresh" THEN "done" ELSE "auth_launch"

ProfileStep(u, to) ==
    /\ profile' = [profile EXCEPT ![u] = to]
    /\ UNCHANGED <<engineVars, watch, orch, cred, cli, dump, jar, route, cookie_file, registry, rec>>

\* auth_core.py 340-348, 379, 104-116: needs_refresh() decides whether
\* refresh_cookies_playwright launches a context first
ProfileBegin ==
    \E u \in ProfileUsers, needs_refresh_now \in BOOLEAN :
        /\ profile[u] = "idle"
        /\ ProfileStep(u, IF needs_refresh_now THEN "refresh_launch"
                          ELSE AfterRefresh(u))

\* auth_core.py 112-116: launch_persistent_context returned or raised
ProfileRefreshLaunched ==
    \E u \in ProfileUsers, launched \in BOOLEAN :
        /\ profile[u] = "refresh_launch"
        /\ ProfileStep(u, IF launched THEN "refresh_open" ELSE AfterRefresh(u))

\* auth_core.py 118-138: login, cookies, context.close()
ProfileRefreshClosed ==
    \E u \in ProfileUsers :
        /\ profile[u] = "refresh_open"
        /\ ProfileStep(u, AfterRefresh(u))

\* auth_core.py 383-388: launch_persistent_context returned or raised
ProfileAuthLaunched ==
    \E u \in ProfileUsers, launched \in BOOLEAN :
        /\ profile[u] = "auth_launch"
        /\ ProfileStep(u, IF launched THEN "auth_open" ELSE "done")

\* auth_core.py 390-402: goto and barriers; on failure the context is closed
ProfileAuthBarriers ==
    \E u \in ProfileUsers, passed \in BOOLEAN :
        /\ profile[u] = "auth_open"
        /\ ProfileStep(u, IF passed THEN "auth_wait" ELSE "done")

\* auth_core.py 404-461: the manifest wait, cookies, context.close()
ProfileAuthClosed ==
    \E u \in ProfileUsers :
        /\ profile[u] = "auth_wait"
        /\ ProfileStep(u, "done")

\* ---- the orchestrator's start_recording / stop_recording ------------------------------
\* 8.5tegalosuiiseomain.py 318-356, 378-399, 506-541
MaxConcurrent == 2       \* max_concurrent_recordings is drawn from 1..MaxConcurrent
MaxSeconds == 1          \* seconds that pass on the clock of time.time()

Callers == {"call_1", "call_2", "call_3"}
Urls == {"https://twitcasting.tv/a", "https://twitcasting.tv/b"}

\* active: self.active_sessions (session_id -> session, reduced to its url);
\* call: the position of each start_recording call; url, sid: its url and
\* the session_id it created; stop: the session_id stop_recording is about to
\* delete, <<>> when no stop is in progress.
NoId == <<>>

orchIdle ==
    [max |-> 1, url_analyzer |-> FALSE, now |-> 0,
     active |-> <<>>,
     call |-> [c \in Callers |-> "idle"],
     url |-> [c \in Callers |-> ""],
     sid |-> [c \in Callers |-> NoId],
     stop |-> NoId]

\* line 392: session_id = f"session_{int(time.time())}_{len(self.active_sessions)}"
SessionId(o) == <<o.now, Cardinality(DOMAIN o.active)>>

\* lines 337-341: create the session, self.active_sessions[session_id] = session
\* (an entry under the same key is replaced), then the engine is awaited
Register(o, c) ==
    LET id == SessionId(o) IN
    [o EXCEPT !.active = [k \in DOMAIN o.active \cup {id} |->
                             IF k = id THEN o.url[c] ELSE o.active[k]],
              !.sid[c] = id,
              !.call[c] = "delegating"]

\* del self.active_sessions[id]
Unregister(active, id) == [k \in DOMAIN active \ {id} |-> active[k]]

OrchStep(o) ==
    /\ orch' = o
    /\ UNCHANGED <<engineVars, watch, profile, cred, cli, dump, jar, route, cookie_file, registry, rec>>

\* lines 320-334: duplicate check, limit check, then the URL analysis is
\* awaited; without a url_analyzer nothing suspends before the insert
OrchStart ==
    \E c \in Callers, url \in Urls :
        /\ orch.call[c] = "idle"
        /\ LET o == [orch EXCEPT !.url[c] = url] IN
           IF \E k \in DOMAIN orch.active : orch.active[k] = url
           THEN OrchStep([o EXCEPT !.call[c] = "returned_false"])
           ELSE IF Cardinality(DOMAIN orch.active) >= orch.max
           THEN OrchStep([o EXCEPT !.call[c] = "returned_false"])
           ELSE IF orch.url_analyzer
           THEN OrchStep([o EXCEPT !.call[c] = "analyzing"])
           ELSE OrchStep(Register(o, c))

\* line 334 returns: lines 337-341
OrchAnalyzed ==
    \E c \in Callers :
        /\ orch.call[c] = "analyzing"
        /\ OrchStep(Register(orch, c))

\* lines 341-356: the engine answered; on failure the entry is deleted (a
\* missing key raises KeyError into the except: False as well)
OrchDelegated ==
    \E c \in Callers, success \in BOOLEAN :
        /\ orch.call[c] = "delegating"
        /\ IF success
           THEN OrchStep([orch EXCEPT !.call[c] = "returned_true"])
           ELSE OrchStep([orch EXCEPT
                            !.active = Unregister(@, orch.sid[c]),
                            !.call[c] = "returned_false"])

\* lines 506-523: stop_recording finds a session by url and awaits the engine
OrchStop ==
    \E id \in DOMAIN orch.active :
        /\ orch.stop = NoId
        /\ OrchStep([orch EXCEPT !.stop = id])

\* lines 525-537: the engine answered; del self.active_sessions[session_id]
OrchStopped ==
    /\ orch.stop # NoId
    /\ OrchStep([orch EXCEPT !.active = Unregister(@, orch.stop),
                             !.stop = NoId])

\* a second passes on the clock read by line 392
OrchTick ==
    /\ orch.now < MaxSeconds
    /\ OrchStep([orch EXCEPT !.now = @ + 1])

\* ---- the cached cookie file: TwitCastingAuth.needs_refresh -----------------------------
\* auth_core.py 55-67, 102-142, 265-309, 340-358.  Time is in hours.
MaxClock == 26           \* hours the clock runs

cookie_refresh_hours == 24

\* exists, mtime: cookies_json and its modification time; now: the clock;
\* event, prev: the latest and the previous thing that happened; answer: what
\* the latest needs_refresh() call returned; savedOk: a login has persisted
\* cookies; playwright, selenium: PLAYWRIGHT_AVAILABLE, SELENIUM_AVAILABLE;
\* call: the latest event when it was a login / refresh call.
\* call.name: the function called; stale: needs_refresh() when it began; log:
\* the backends it ran, each with what happened and what it returned; ret: the
\* value returned; wrote: a cookie file was written; raised: an exception left
\* the call.
NoCall ==
    [name |-> "none", stale |-> FALSE, log |-> <<>>, ret |-> FALSE,
     wrote |-> FALSE, raised |-> FALSE]

credIdle ==
    [exists |-> FALSE, mtime |-> 0, now |-> 0,
     event |-> "none", prev |-> "none", answer |-> FALSE, savedOk |-> FALSE,
     playwright |-> TRUE, selenium |-> FALSE, call |-> NoCall]

\* variant that looks at the existence of the file only
needs_refresh_ExistsOnly(c) == ~c.exists

\* lines 58-67
needs_refresh(c) ==
    IF ~c.exists
    THEN TRUE
    ELSE c.now - c.mtime > cookie_refresh_hours

Happened(c, e) == [c EXCEPT !.prev = c.event, !.event = e]

\* lines 265-309: the JSON file is written first (its mtime becomes now), then
\* the Netscape jar; True only when both were written
_save_cookies(c, outcome) ==
    CASE outcome = "ok" ->
           Happened([c EXCEPT !.exists = TRUE, !.mtime = c.now,
                              !.savedOk = TRUE, !.call.wrote = TRUE,
                              !.call.ret = TRUE], "saved")
      [] outcome = "jar_error" ->
           Happened([c EXCEPT !.exists = TRUE, !.mtime = c.now,
                              !.call.wrote = TRUE, !.call.ret = FALSE],
                    "save_failed")
      [] outcome = "open_error" ->
           Happened([c EXCEPT !.call.ret = FALSE], "save_failed")

\* what a backend run meets.  unavailable: the package is not installed;
\* error: a network, timeout or automation error before the login is over;
\* login_failed: no credential pair logged in; ok, jar_error, open_error: the
\* login succeeded and _save_cookies ended so; close_error: the cookies were
\* saved and context.close() raised.
LoginOutcomes == {"error", "login_failed", "ok", "jar_error", "open_error"}

PlaywrightOutcomes(available) ==
    IF available THEN LoginOutcomes \cup {"close_error"} ELSE {"unavailable"}

SeleniumOutcomes(available) ==
    IF available THEN LoginOutcomes ELSE {"unavailable"}

\* the outcomes in which the login did not succeed
LoginFailures == {"unavailable", "error", "login_failed"}

Failed(c, e) == Happened([c EXCEPT !.call.ret = FALSE], e)

\* variant without the except clause of lines 140-142
refresh_cookies_playwright_NoExcept(c, outcome) ==
    CASE outcome = "unavailable" -> Failed(c, "unavailable")
      [] outcome = "error" ->
           Failed([c EXCEPT !.call.raised = TRUE], "login_error")
      [] outcome = "login_failed" -> Failed(c, "login_failed")
      [] outcome = "close_error" ->
           [_save_cookies(c, "ok") EXCEPT !.call.raised = TRUE]
      [] OTHER -> _save_cookies(c, outcome)

\* lines 102-142
refresh_cookies_playwright(c, outcome) ==
    CASE outcome = "unavailable" -> Failed(c, "unavailable")
      [] outcome = "error" -> Failed(c, "login_error")
      [] outcome = "login_failed" -> Failed(c, "login_failed")
      [] outcome = "close_error" ->
           [_save_cookies(c, "ok") EXCEPT !.call.ret = FALSE]
      [] OTHER -> _save_cookies(c, outcome)

\* lines 177-225
refresh_cookies_selenium(c, outcome) ==
    CASE outcome = "unavailable" -> Failed(c, "unavailable")
      [] outcome = "error" -> Failed(c, "login_error")
      [] outcome = "login_failed" -> Failed(c, "login_failed")
      [] OTHER -> _save_cookies(c, outcome)

\* a call begins
StartCall(c, name) ==
    [c EXCEPT !.call = [NoCall EXCEPT !.name = name,
                                      !.stale = needs_refresh(c)]]

\* a backend has run
Logged(c, backend, outcome) ==
    [c EXCEPT !.call.log =
        Append(@, [backend |-> backend, outcome |-> outcome,
                   ok |-> c.call.ret])]

CredStep(c) ==
    /\ cred' = c
    /\ UNCHANGED <<engineVars, watch, profile, orch, cli, dump, jar, route, cookie_file, registry, rec>>

\* an hour passes
CredTick ==
    /\ cred.now < MaxClock
    /\ CredStep(Happened([cred EXCEPT !.now = @ + 1, !.call = NoCall], "tick"))

\* refresh_cookies_playwright is called
CredLogin ==
    \E outcome \in PlaywrightOutcomes(cred.playwright) :
        CredStep(Logged(refresh_cookies_playwright(
                            StartCall(cred, "refresh_cookies_playwright"),
                            outcome),
                        "playwright", outcome))

\* refresh_cookies_selenium is called
CredLoginSelenium ==
    \E outcome \in SeleniumOutcomes(cred.selenium) :
        CredStep(Logged(refresh_cookies_selenium(
                            StartCall(cred, "refresh_cookies_selenium"),
                            outcome),
                        "selenium", outcome))

\* needs_refresh() is called (has_valid_cookies, auto_refresh_if_needed)
CredNeedsRefresh ==
    CredStep(Happened([cred EXCEPT !.answer = needs_refresh(cred),
                                   !.call = NoCall], "asked"))

\* variant that runs the alternate backend whenever it is installed
TriesAlternate_Always(success, selenium_available) == selenium_available

\* line 349: if not success and SELENIUM_AVAILABLE
TriesAlternate(success, selenium_available) ==
    ~success /\ selenium_available

\* lines 340-358
auto_refresh_if_needed ==
    LET c0 == StartCall(cred, "auto_refresh_if_needed") IN
    IF ~needs_refresh(cred)
    THEN CredStep(Happened([c0 EXCEPT !.call.ret = TRUE], "skipped"))
    ELSE \E o1 \in PlaywrightOutcomes(cred.playwright) :
            LET c1 == Logged(refresh_cookies_playwright(c0, o1),
                             "playwright", o1)
            IN  IF TriesAlternate(c1.call.ret, cred.selenium)
                THEN \E o2 \in SeleniumOutcomes(cred.selenium) :
                        CredStep(Logged(refresh_cookies_selenium(c1, o2),
                                        "selenium", o2))
                ELSE CredStep(c1)


\* ---- RecordingOptions and its repr --------------------------------------------------------
\* recording_options.py 11-49.  An Optional[str] is <<>> for None and <<s>>
\* for the string s; a piece of text is a tuple of its parts.

\* the truth value Python gives an Optional[str]
Truthy(v) == v # <<>> /\ v[1] # ""

\* lines 14-22: the fields in declaration order (the order of self.__dict__)
\* and their defaults
FieldNames ==
    <<"confirmed_by_user", "password", "headless", "timeout_minutes",
      "quality", "session_name", "auto_retry", "max_retries",
      "retry_base_delay">>

RecordingOptionsDefaults ==
    [confirmed_by_user |-> FALSE, password |-> <<>>, headless |-> FALSE,
     timeout_minutes |-> 180, quality |-> "best", session_name |-> <<>>,
     auto_retry |-> TRUE, max_retries |-> 3, retry_base_delay |-> 5]

\* lines 29-34: the checks that raise ValueError
PostInitAccepts(o) ==
    /\ o.timeout_minutes >= 1
    /\ o.max_retries >= 0
    /\ o.retry_base_delay >= 1

\* lines 37-39
valid_qualities == {"best", "worst", "hd", "medium", "low"}

__post_init__(o) ==
    [o EXCEPT !.quality = IF @ \in valid_qualities THEN @ ELSE "best"]

\* Python's repr() of a str
PyReprStr(s) == <<"'", s, "'">>

\* Python's repr() of the field f: a bool, an int, a str or an Optional[str]
PyRepr(o, f) ==
    CASE f \in {"confirmed_by_user", "headless", "auto_retry"} ->
           IF o[f] THEN <<"True">> ELSE <<"False">>
      [] f \in {"timeout_minutes", "max_retries", "retry_base_delay"} ->
           <<"int", o[f]>>
      [] f = "quality" -> PyReprStr(o[f])
      [] f \in {"password", "session_name"} ->
           IF o[f] = <<>> THEN <<"None">> ELSE PyReprStr(o[f][1])

\* variant that renders every field with repr()
repr_Unmasked(o) ==
    [i \in 1..Len(FieldNames) |-> <<FieldNames[i], PyRepr(o, FieldNames[i])>>]

\* lines 41-49: the list `fields`, one name=text entry per field
__repr__(o) ==
    [i \in 1..Len(FieldNames) |->
        LET field_name == FieldNames[i] IN
        IF field_name = "password" /\ Truthy(o.password)
        THEN <<field_name, PyReprStr("***")>>
        ELSE <<field_name, PyRepr(o, field_name)>>]

\* the arguments two RecordingOptions(...) calls are given
DumpInputs ==
    {[RecordingOptionsDefaults EXCEPT !.confirmed_by_user = c, !.password = p,
                                      !.timeout_minutes = t, !.quality = q] :
        c \in BOOLEAN, p \in {<<>>, <<"">>, <<"hunter2">>, <<"pw">>},
        t \in {0, 180},
        q \in {"best", "hd", "4k"}}

\* a, b: two RecordingOptions objects; repr_a, repr_b: their dumps
dumpIdle ==
    [pc |-> "idle", a |-> RecordingOptionsDefaults,
     b |-> RecordingOptionsDefaults, repr_a |-> <<>>, repr_b |-> <<>>]

DumpStep(d) ==
    /\ dump' = d
    /\ UNCHANGED <<engineVars, watch, profile, orch, cred,
                   cli, jar, route, cookie_file, registry, rec>>

\* lines 11-39: two objects are constructed; a ValueError constructs nothing
DumpConstruct ==
    /\ dump.pc = "idle"
    /\ \E a \in DumpInputs, b \in DumpInputs :
         IF PostInitAccepts(a) /\ PostInitAccepts(b)
         THEN DumpStep([dump EXCEPT !.pc = "built", !.a = __post_init__(a),
                                    !.b = __post_init__(b)])
         ELSE DumpStep([dump EXCEPT !.pc = "value_error"])

\* lines 41-49: both objects are dumped
DumpRepr ==
    /\ dump.pc = "built"
    /\ DumpStep([dump EXCEPT !.pc = "dumped", !.repr_a = __repr__(dump.a),
                             !.repr_b = __repr__(dump.b)])

\* ---- cookie lists and the cookie files written from them ---------------------------------
\* authenticated_recording.py 272-294, 405-426; group_stream_recorder.py
\* 270-300; auth_core.py 446.  A cookie is what the browser context's
\* cookies() returns: expires is the epoch second, -1 for a session cookie.  A
\* domain is the tuple of its pieces, so that a leading "." can be looked at.
MaxCookies == 2          \* cookies in one list

Cookies ==
    [domain : {<<".", "twitcasting.tv">>, <<"twitcasting.tv">>},
     path : {"/"}, name : {"tc_id", "tc_ss"},
     value : {"v"}, secure : BOOLEAN, expires : {-1, 1700000000}]

\* the cookie lists with distinct (domain, path, name)
CookieLists ==
    {cs \in SUBSET Cookies :
        /\ Cardinality(cs) <= MaxCookies
        /\ \A c, d \in cs :
              <<c.domain, c.path, c.name>> = <<d.domain, d.path, d.name>>
              => c = d}

\* one line of the file: its seven tab-separated fields as text; a number
\* stands for its decimal text
Line(domain, flag, path, secure, expiry, name, value) ==
    [domain |-> domain, flag |-> flag, path |-> path, secure |-> secure,
     expiry |-> expiry, name |-> name, value |-> value]

\* authenticated_recording.py 405-426 (line 420); the secure column is the
\* str() of a bool
_export_fresh_cookies(cookies) ==
    {Line(c.domain, "TRUE", c.path, IF c.secure THEN "True" ELSE "False", 0,
          c.name, c.value) : c \in cookies}

\* group_stream_recorder.py 270-300
_export_fresh_cookies_netscape(cookies) ==
    {Line(c.domain,
          IF c.domain[1] = "." THEN "TRUE" ELSE "FALSE",
          c.path,
          IF c.secure THEN "TRUE" ELSE "FALSE",
          IF c.expires # 0 THEN c.expires ELSE 0,
          c.name, c.value) : c \in cookies}

\* auth_core.py 446: the name=value pairs of the Cookie header
cookie_header(cookies) == {<<c.name, c.value>> : c \in cookies}

\* authenticated_recording.py 272-294 (line 289); the domain is the netloc of
\* the session's url
_create_netscape_cookie_file(cookies) ==
    {Line(<<"twitcasting.tv">>, "TRUE", "/", "FALSE", 0, pair[1], pair[2]) :
        pair \in cookie_header(cookies)}

Serializers ==
    {"_export_fresh_cookies", "_export_fresh_cookies_netscape",
     "_create_netscape_cookie_file"}

Serialize(serializer, cookies) ==
    CASE serializer = "_export_fresh_cookies" -> _export_fresh_cookies(cookies)
      [] serializer = "_export_fresh_cookies_netscape" ->
           _export_fresh_cookies_netscape(cookies)
      [] serializer = "_create_netscape_cookie_file" ->
           _create_netscape_cookie_file(cookies)

\* reading a line of the flat cookie-file format back: the flag and secure
\* columns are true when they read TRUE
ParseLine(l) ==
    [domain |-> l.domain, flag |-> (l.flag = "TRUE"), path |-> l.path,
     secure |-> (l.secure = "TRUE"), expiry |-> l.expiry,
     name |-> l.name, value |-> l.value]

\* the documented fields of a cookie
Documented(c) ==
    [domain |-> c.domain, flag |-> (c.domain[1] = "."), path |-> c.path,
     secure |-> c.secure, expiry |-> IF c.expires > 0 THEN c.expires ELSE 0,
     name |-> c.name, value |-> c.value]

jarIdle ==
    [pc |-> "idle", serializer |-> "none", cookies |-> {}, lines |-> {},
     parsed |-> {}]

JarStep(j) ==
    /\ jar' = j
    /\ UNCHANGED <<engineVars, watch, profile, orch, cred,
                   cli, dump, route, cookie_file, registry, rec>>

\* a cookie list is written to a cookie file
JarSerialize ==
    /\ jar.pc = "idle"
    /\ \E serializer \in Serializers, cookies \in CookieLists :
         JarStep([jar EXCEPT !.pc = "written", !.serializer = serializer,
                             !.cookies = cookies,
                             !.lines = Serialize(serializer, cookies)])

\* the file is read back
JarParse ==
    /\ jar.pc = "written"
    /\ JarStep([jar EXCEPT !.pc = "parsed",
                           !.parsed = {ParseLine(l) : l \in jar.lines}])

\* ---- _determine_auth_requirement ----------------------------------------------------------
\* 8.5tegalosuiiseomain.py 434-460.  A url is https://twitcasting.tv/ followed
\* by a prefix ("g:", "c:" or nothing), a name made of words, and a suffix; a
\* substring test on the url is a test on these pieces.
MaxWords == 2            \* words in a channel name

UrlWords ==
    {"user", "123", "private", "Private", "limited", "member", "group",
     "community"}

UrlNames == UNION {[1..n -> UrlWords] : n \in 1..MaxWords}

\* str.lower() of a word
Lower(w) == IF w = "Private" THEN "private" ELSE w

\* `indicator in url_lower`: the host holds none of the indicators
InUrlLower(indicator, u) ==
    \E i \in 1..Len(u.name) : Lower(u.name[i]) = indicator

limited_indicators == {"limited", "private", "member"}

\* analysis: "absent" for None or an empty dict, otherwise the value of its
\* requires_auth
_determine_auth_requirement(analysis, u) ==
    IF analysis # "absent"
    THEN analysis = "requires_auth"
    ELSE IF u.prefix = "g:" \/ InUrlLower("group", u)
    THEN TRUE
    ELSE IF u.prefix = "c:" \/ InUrlLower("community", u)
    THEN TRUE
    ELSE IF \E indicator \in limited_indicators : InUrlLower(indicator, u)
    THEN TRUE
    ELSE FALSE

routeIdle ==
    [pc |-> "idle", url |-> [prefix |-> "", name |-> <<"user">>, suffix |-> ""],
     analysis |-> "absent", answer |-> FALSE]

RouteStep(r) ==
    /\ route' = r
    /\ UNCHANGED <<engineVars, watch, profile, orch, cred,
                   cli, dump, jar, cookie_file, registry, rec>>

\* lines 434-460 called for a url
RouteDetermine ==
    /\ route.pc = "idle"
    /\ \E prefix \in {"", "g:", "c:"}, name \in UrlNames,
          suffix \in {"", "/broadcaster"},
          analysis \in {"absent", "requires_auth", "no_auth"} :
         LET u == [prefix |-> prefix, name |-> name, suffix |-> suffix] IN
         RouteStep([pc |-> "answered", url |-> u, analysis |-> analysis,
                    answer |-> _determine_auth_requirement(analysis, u)])

\* ---- active_sessions under the stop path and the monitor ---------------------------------
\* authenticated_recording.py 453-505, 507-536.  The session "s1" has a capture
\* subprocess and a monitor task; a stop request for its url arrives.  The
\* registry holds other sessions as well.

\* variant with the del statement alone: KeyError for an absent key
Delete_Unguarded(active, id) ==
    [active |-> active \ {id}, error |-> id \notin active]

\* lines 500-501: if session.session_id in self.active_sessions: del ...;
\* error: the statement raised
Delete(active, id) ==
    [active |-> active \ {id}, error |-> FALSE]

\* active: the keys of self.active_sessions; initial: the keys at the start;
\* ctx: session.browser_context; stop, monitor: the positions of
\* stop_recording and _monitor_recording_process; error: an exception was
\* raised inside a cleanup; overlapped: a cleanup began while the other one
\* was suspended in close().
registryIdle ==
    [active |-> {"s1"}, initial |-> {"s1"}, ctx |-> "none", proc |-> "running",
     stop |-> "idle", monitor |-> "communicate", error |-> FALSE,
     overlapped |-> FALSE]

RegistryStep(r) ==
    /\ registry' = r
    /\ UNCHANGED <<engineVars, watch, profile, orch, cred,
                   cli, dump, jar, route, cookie_file, rec>>

\* lines 490-505 up to the first suspension: with a browser context the
\* close() is awaited (a context that was closed before is still an object);
\* without one the cleanup runs to its end
CleanupBegin(r, who) ==
    IF r.ctx # "none"
    THEN [r EXCEPT ![who] = "closing",
                   !.ctx = IF @ = "open" THEN "closing" ELSE @,
                   !.overlapped = @ \/ "closing" \in {r.stop, r.monitor}]
    ELSE LET d == Delete(r.active, "s1") IN
         [r EXCEPT ![who] = "done", !.active = d.active,
                   !.error = @ \/ d.error]

\* lines 494-503: close() returned; rmtree; the guarded del
CleanupEnd(r, who) ==
    LET d == Delete(r.active, "s1") IN
    [r EXCEPT ![who] = "done", !.ctx = "closed", !.active = d.active,
              !.error = @ \/ d.error]

\* the capture subprocess exits
RegistryProcExit ==
    /\ registry.proc = "running"
    /\ RegistryStep([registry EXCEPT !.proc = "exited"])

\* lines 509-525: stop_recording looks the session up, terminates the process
\* and awaits its exit
RegistryStop ==
    /\ registry.stop = "idle"
    /\ IF "s1" \in registry.active
       THEN RegistryStep([registry EXCEPT !.stop = "wait"])
       ELSE RegistryStep([registry EXCEPT !.stop = "not_found"])

\* lines 525-530: the wait returned; _cleanup_session
RegistryStopCleanup ==
    /\ registry.stop = "wait"
    /\ registry.proc = "exited"
    /\ RegistryStep(CleanupBegin(registry, "stop"))

\* lines 459-488: communicate() returned; finally: _cleanup_session
RegistryMonitorCleanup ==
    /\ registry.monitor = "communicate"
    /\ registry.proc = "exited"
    /\ RegistryStep(CleanupBegin(registry, "monitor"))

\* a cleanup resumes from the awaited close()
RegistryCleanupResume ==
    \E who \in {"stop", "monitor"} :
        /\ registry[who] = "closing"
        /\ RegistryStep(CleanupEnd(registry, who))

\* ---- a cookie file, its writer and its readers -------------------------------------------
\* auth_core.py 265-309 (_save_cookies: open(cookies_json, 'w') and
\* MozillaCookieJar.save on cookies_txt), authenticated_recording.py 272-294,
\* 405-426 (open(cookie_file, 'w')).  Each writer opens the file itself for
\* writing, which empties it, and writes it piece by piece.  The writer runs
\* without an await, so tasks of the same event loop read only before or
\* after it; another process reads whenever it gets to it.  The files of
\* _save_cookies belong to the data directory and are read by every running
\* instance of the program (auth_core.py 45-46, 58-99); a session's own
\* cookie file is read by the yt-dlp started after it was written
\* (authenticated_recording.py 246-247, 437-438).
MaxLines == 3            \* pieces a snapshot is written in

\* writer: the function persisting; pc: idle, open (between open() and the end
\* of the with block) or done; total, lines: the pieces of the new snapshot
\* and how many are in the file; old: the file held an earlier snapshot;
\* seen_task, seen_process: what readers on the writer's event loop and
\* readers in other processes saw.
fileIdle ==
    [writer |-> "_save_cookies", pc |-> "idle", total |-> 1, lines |-> 0,
     old |-> FALSE, seen_task |-> {}, seen_process |-> {}]

\* what the file holds
Content(f) ==
    CASE f.pc = "idle" -> IF f.old THEN "old" ELSE "absent"
      [] f.pc = "open" -> IF f.lines = 0 THEN "empty"
                          ELSE IF f.lines < f.total THEN "partial" ELSE "new"
      [] f.pc = "done" -> "new"

FileStep(f) ==
    /\ cookie_file' = f
    /\ UNCHANGED <<engineVars, watch, profile, orch, cred,
                   cli, dump, jar, route, registry, rec>>

\* open(path, 'w'): the file is created or emptied
FileOpen ==
    /\ cookie_file.pc = "idle"
    /\ FileStep([cookie_file EXCEPT !.pc = "open", !.lines = 0])

\* f.write / json.dump: the next piece reaches the file
FileWrite ==
    /\ cookie_file.pc = "open"
    /\ cookie_file.lines < cookie_file.total
    /\ FileStep([cookie_file EXCEPT !.lines = @ + 1])

\* the with block ends
FileClose ==
    /\ cookie_file.pc = "open"
    /\ cookie_file.lines = cookie_file.total
    /\ FileStep([cookie_file EXCEPT !.pc = "done"])

\* auth_core.py 58-67, 69-99: needs_refresh, has_valid_cookies, get_cookies of
\* another task, on the shared files
FileReadTask ==
    /\ cookie_file.writer = "_save_cookies"
    /\ cookie_file.pc # "open"
    /\ FileStep([cookie_file EXCEPT !.seen_task = @ \cup {Content(cookie_file)}])

\* another process reads the file: needs_refresh, has_valid_cookies or
\* get_cookies of a second instance of the program the shared file, at any
\* time; yt-dlp the session's file, after the writer has returned
FileReadProcess ==
    /\ cookie_file.writer # "_save_cookies" => cookie_file.pc = "done"
    /\ FileStep([cookie_file EXCEPT
                    !.seen_process = @ \cup {Content(cookie_file)}])

\* ---- the basic RecordingEngine: active_recordings and the two result lists -----------------
\* recording_engine.py 47-54, 79-142, 144-199, 248-331, 351-385.  For each url
\* the model follows one accepted recording and one stop request.
\* active: url in self.active_recordings; status, process: recording_info's
\* fields; task: the position of the _run_recording task; proc, signal,
\* returncode: the capture process as the OS sees it; temp: the temp file
\* exists; completed, failed: entries of this recording in
\* completed_recordings and failed_recordings; stop: the stop_recording call.
recIdle ==
    [u \in Urls |->
        [active |-> FALSE, status |-> "none", process |-> FALSE,
         task |-> "idle", proc |-> "none", signal |-> "none", returncode |-> 0,
         temp |-> FALSE, completed |-> 0, failed |-> 0, stop |-> "idle"]]

RecStep(u, r) ==
    /\ rec' = [rec EXCEPT ![u] = r]
    /\ UNCHANGED <<engineVars, watch, profile, orch, cred,
                   cli, dump, jar, route, cookie_file, registry>>

\* lines 281-331: _finalize_recording has no await.  fs_ok: the file
\* operations (replace and stat at lines 293-299, unlink at line 324) succeed;
\* when one raises, the except of line 330 logs and the function returns
_finalize_recording(r, success, fs_ok) ==
    IF success /\ r.temp
    THEN IF fs_ok
         THEN [r EXCEPT !.status = "completed", !.active = FALSE,
                        !.completed = @ + 1, !.temp = FALSE, !.task = "done"]
         ELSE [r EXCEPT !.task = "done"]
    ELSE [r EXCEPT !.status = "failed", !.active = FALSE,
                   !.failed = @ + 1, !.temp = @ /\ ~fs_ok, !.task = "done"]

\* lines 79-121: start_recording; a url in active_recordings is refused
\* (lines 86-88), else the entry is made and the task created
start_recording ==
    \E u \in Urls :
        /\ rec[u].task = "idle" \/ rec[u].active
        /\ IF rec[u].active
           THEN RecStep(u, rec[u])
           ELSE RecStep(u, [rec[u] EXCEPT !.active = TRUE, !.status = "starting",
                                          !.task = "create"])

\* lines 123-142 and 144-199 / 201-246: create_subprocess_exec is awaited; on
\* an exception _record_with_... returns False and the recording is finalised
RecCreate ==
    \E u \in Urls, created \in BOOLEAN, fs_ok \in BOOLEAN :
        /\ rec[u].task = "create"
        /\ IF created
           THEN RecStep(u, [rec[u] EXCEPT !.process = TRUE, !.status = "recording",
                                          !.proc = "running",
                                          !.task = "communicate"])
           ELSE RecStep(u, _finalize_recording(rec[u], FALSE, fs_ok))

\* the capture process ends, by itself or on a signal; wrote: it has left a
\* temp file
RecProcExit ==
    \E u \in Urls, rc \in {0, 1}, wrote \in BOOLEAN :
        /\ rec[u].proc = "running"
        /\ rec[u].signal = "kill" => rc = 1
        /\ RecStep(u, [rec[u] EXCEPT !.proc = "exited", !.returncode = rc,
                                     !.temp = wrote])

\* lines 248-279 and 138: the monitor sees the exit (success iff return code
\* 0), or the timeout of wait_for fires, the process is killed and waited for
\* (False); then _finalize_recording
RecMonitor ==
    \E u \in Urls, fs_ok \in BOOLEAN :
        /\ rec[u].task \in {"communicate", "kill_wait"}
        /\ IF rec[u].proc = "exited"
           THEN RecStep(u, _finalize_recording(rec[u],
                               rec[u].task = "communicate" /\ rec[u].returncode = 0,
                               fs_ok))
           ELSE /\ rec[u].task = "communicate"
                /\ RecStep(u, [rec[u] EXCEPT !.signal = "kill",
                                             !.task = "kill_wait"])

\* lines 351-371: stop_recording; no entry or no process -> False; else
\* status STOPPING and SIGTERM (on a process that has already been reaped the
\* signal is not sent or raises ProcessLookupError -> False)
RecStop ==
    \E u \in Urls, raises \in BOOLEAN :
        /\ rec[u].stop = "idle"
        /\ rec[u].task # "idle"
        /\ IF ~rec[u].active \/ ~rec[u].process
           THEN RecStep(u, [rec[u] EXCEPT !.stop = "returned_false"])
           ELSE IF rec[u].proc = "exited" /\ raises
           THEN RecStep(u, [rec[u] EXCEPT !.status = "stopping",
                                          !.stop = "returned_false"])
           ELSE RecStep(u, [rec[u] EXCEPT !.status = "stopping",
                                          !.signal = IF @ = "none" /\ rec[u].proc = "running"
                                                     THEN "term" ELSE @,
                                          !.stop = "wait"])

\* lines 373-381: wait for the exit, kill after the timeout, True
RecStopWait ==
    \E u \in Urls :
        /\ rec[u].stop \in {"wait", "kill_wait"}
        /\ IF rec[u].proc = "exited"
           THEN RecStep(u, [rec[u] EXCEPT !.stop = "returned_true"])
           ELSE /\ rec[u].stop = "wait"
                /\ RecStep(u, [rec[u] EXCEPT !.signal = "kill",
                                             !.stop = "kill_wait"])

\* ---- the single-URL command of main() ------------------------------------------------
\* 8.5tegalosuiiseomain.py 1002-1016, 147-153, 338, 350; the recording itself
\* ends in the engine (authenticated_recording.py 459-488).
MaxPolls == 10           \* sleeps of the wait loop that are counted

\* pc: position of main(); running: orchestrator.state.running; registered:
\* orchestrator.active_sessions is not empty; engine: the recording in the
\* engine; polls: sleeps of the wait loop so far (counted up to MaxPolls).
cliIdle ==
    [pc |-> "start", running |-> TRUE, registered |-> FALSE,
     engine |-> "none", polls |-> 0]

CliStep(c) ==
    /\ cli' = c
    /\ UNCHANGED <<engineVars, watch, profile, orch, cred,
                   dump, jar, route, cookie_file, registry, rec>>

\* lines 1008-1010 with 338-352: start_recording registers the session and
\* leaves it registered on success, deletes it on failure
CliStart ==
    /\ cli.pc = "start"
    /\ \E success \in BOOLEAN :
         IF success
         THEN CliStep([cli EXCEPT !.pc = "waiting", !.registered = TRUE,
                                  !.engine = "recording"])
         ELSE CliStep([cli EXCEPT !.pc = "returned"])

\* authenticated_recording.py 459-488: the capture ends; the engine sets its
\* status and removes the session from its own active_sessions; nothing is
\* reported to the orchestrator
CliEngineDone ==
    /\ cli.engine = "recording"
    /\ \E status \in {"completed", "failed"} :
         CliStep([cli EXCEPT !.engine = status])

\* line 1012: the test of while state.running and active_sessions
CliPoll ==
    /\ cli.pc = "waiting"
    /\ IF cli.running /\ cli.registered
       THEN CliStep([cli EXCEPT !.pc = "sleeping"])
       ELSE CliStep([cli EXCEPT !.pc = "returned"])

\* line 1013: asyncio.sleep(1) returns
CliSleepDone ==
    /\ cli.pc = "sleeping"
    /\ CliStep([cli EXCEPT !.pc = "waiting",
                           !.polls = IF @ < MaxPolls THEN @ + 1 ELSE @])

\* lines 147-153: _signal_handler on SIGINT / SIGTERM
CliSignal ==
    /\ cli.running
    /\ CliStep([cli EXCEPT !.running = FALSE])

sideIdle ==
    /\ profile = profileIdle
    /\ orch = orchIdle
    /\ cred = credIdle
    /\ cli = cliIdle
    /\ dump = dumpIdle
    /\ jar = jarIdle
    /\ route = routeIdle
    /\ cookie_file = fileIdle
    /\ registry = registryIdle
    /\ rec = recIdle

ProfileInit ==
    /\ EngineInit
    /\ watch = watchIdle
    /\ sideIdle

ProfileNext ==
    \/ ProfileBegin
    \/ ProfileRefreshLaunched
    \/ ProfileRefreshClosed
    \/ ProfileAuthLaunched
    \/ ProfileAuthBarriers
    \/ ProfileAuthClosed

SpecProfile == ProfileInit /\ [][ProfileNext]_vars

OrchInit ==
    /\ EngineInit
    /\ watch = watchIdle
    /\ profile = profileIdle
    /\ cred = credIdle
    /\ cli = cliIdle
    /\ dump = dumpIdle
    /\ jar = jarIdle
    /\ route = routeIdle
    /\ cookie_file = fileIdle
    /\ registry = registryIdle
    /\ rec = recIdle
    /\ \E max \in 1..MaxConcurrent, url_analyzer \in BOOLEAN :
         orch = [orchIdle EXCEPT !.max = max, !.url_analyzer = url_analyzer]

OrchNext ==
    \/ OrchStart
    \/ OrchAnalyzed
    \/ OrchDelegated
    \/ OrchStop
    \/ OrchStopped
    \/ OrchTick

SpecOrch == OrchInit /\ [][OrchNext]_vars

\* the packages that are installed are fixed when the module is imported
\* (auth_core.py 19-36)
CredInit ==
    /\ EngineInit
    /\ watch = watchIdle
    /\ profile = profileIdle
    /\ orch = orchIdle
    /\ cli = cliIdle
    /\ dump = dumpIdle
    /\ jar = jarIdle
    /\ route = routeIdle
    /\ cookie_file = fileIdle
    /\ registry = registryIdle
    /\ rec = recIdle
    /\ \E playwright \in BOOLEAN, selenium \in BOOLEAN :
         cred = [credIdle EXCEPT !.playwright = playwright,
                                 !.selenium = selenium]

CredNext ==
    \/ CredTick
    \/ CredLogin
    \/ CredLoginSelenium
    \/ CredNeedsRefresh
    \/ auto_refresh_if_needed

SpecCred == CredInit /\ [][CredNext]_vars

DumpInit ==
    /\ EngineInit
    /\ watch = watchIdle
    /\ sideIdle

DumpNext ==
    \/ DumpConstruct
    \/ DumpRepr

SpecDump == DumpInit /\ [][DumpNext]_vars

JarInit ==
    /\ EngineInit
    /\ watch = watchIdle
    /\ sideIdle

JarNext ==
    \/ JarSerialize
    \/ JarParse

SpecJar == JarInit /\ [][JarNext]_vars

RouteInit ==
    /\ EngineInit
    /\ watch = watchIdle
    /\ sideIdle

SpecRoute == RouteInit /\ [][RouteDetermine]_vars

\* the registry holds s1 and any of the other sessions; s1 is on the auth_core
\* path (no browser context) or on the fallback path (an open context)
RegistryInit ==
    /\ EngineInit
    /\ watch = watchIdle
    /\ profile = profileIdle
    /\ orch = orchIdle
    /\ cred = credIdle
    /\ cli = cliIdle
    /\ dump = dumpIdle
    /\ jar = jarIdle
    /\ route = routeIdle
    /\ cookie_file = fileIdle
    /\ \E others \in SUBSET {"s2", "s3"}, ctx \in {"none", "open"} :
         registry = [registryIdle EXCEPT !.active = {"s1"} \cup others,
                                         !.initial = {"s1"} \cup others,
                                         !.ctx = ctx]
    /\ rec = recIdle

RegistryNext ==
    \/ RegistryProcExit
    \/ RegistryStop
    \/ RegistryStopCleanup
    \/ RegistryMonitorCleanup
    \/ RegistryCleanupResume

SpecRegistry == RegistryInit /\ [][RegistryNext]_vars

FileInit ==
    /\ EngineInit
    /\ watch = watchIdle
    /\ profile = profileIdle
    /\ orch = orchIdle
    /\ cred = credIdle
    /\ cli = cliIdle
    /\ dump = dumpIdle
    /\ jar = jarIdle
    /\ route = routeIdle
    /\ registry = registryIdle
    /\ rec = recIdle
    /\ \E writer \in {"_save_cookies", "_create_netscape_cookie_file",
                       "_export_fresh_cookies"},
          total \in 1..MaxLines, old \in BOOLEAN :
         cookie_file = [fileIdle EXCEPT !.writer = writer, !.total = total,
                                        !.old = old]

FileNext ==
    \/ FileOpen
    \/ FileWrite
    \/ FileClose
    \/ FileReadTask
    \/ FileReadProcess

SpecFile == FileInit /\ [][FileNext]_vars

CliInit ==
    /\ EngineInit
    /\ watch = watchIdle
    /\ sideIdle

CliNext ==
    \/ CliStart
    \/ CliEngineDone
    \/ CliPoll
    \/ CliSleepDone
    \/ CliSignal

\* the event loop keeps running main() and the engine's tasks; no signal has
\* to arrive
SpecCli ==
    /\ CliInit
    /\ [][CliNext]_vars
    /\ WF_vars(CliStart)
    /\ WF_vars(CliEngineDone)
    /\ WF_vars(CliPoll)
    /\ WF_vars(CliSleepDone)

WatchInit ==
    /\ EngineInit
    /\ sideIdle
    /\ \E kind \in WatchKinds, minutes \in 1..MaxTimeoutMinutes :
         /\ kind # "expect_response" => minutes = 1
         /\ watch = WatchStart(kind, minutes)

WatchNext ==
    \/ WatchCheck
    \/ WatchSleepScroll
    \/ WatchSleepInterval
    \/ WatchCookies
    \/ WatchResponse
    \/ WatchTick
    \/ WatchTimeout

SpecWatch == WatchInit /\ [][WatchNext]_vars

\* ---- the specification of the basic RecordingEngine -----------------------------------
RecInit ==
    /\ EngineInit
    /\ watch = watchIdle
    /\ sideIdle

RecNext ==
    \/ start_recording
    \/ RecCreate
    \/ RecProcExit
    \/ RecMonitor
    \/ RecStop
    \/ RecStopWait

SpecRec == RecInit /\ [][RecNext]_vars

\* ---- the engine specification ---------------------------------------------------
Init ==
    /\ EngineInit
    /\ watch = watchIdle
    /\ sideIdle

Next ==
    \/ start_authenticated_recording
    \/ set_stream_password
    \/ RetryLoop
    \/ AttemptCleanupResume
    \/ FinalCleanupResume
    \/ AuthRefresh
    \/ AuthGoto
    \/ AuthBarriers
    \/ AuthWait
    \/ AuthCookies
    \/ FbBrowser
    \/ FbGoto
    \/ FbWait
    \/ FbCookies
    \/ FbPageClose
    \/ Launch
    \/ ProcExit
    \/ MonitorExit
    \/ MonitorCleanupResume
    \/ stop_recording
    \/ shutdown
    \/ StopWaitDone
    \/ StopGraceTick
    \/ StopTimeout
    \/ StopKillWaitDone
    \/ StopCleanupResume

Spec == Init /\ [][Next]_vars

\* ==== claims ========================================================================

\* C1: start_authenticated_recording with options.confirmed_by_user = false
\* returns False and has no effect: no RecordingSession is created or
\* registered, no status changes, no retry task and no subprocess is started.
\* A session only ever exists for a confirmed request.
C1_UnconfirmedStartHasNoEffect ==
    /\ [](session.exists => options.confirmed_by_user)
    /\ [][(hist'.lastStart # hist.lastStart
             /\ hist'.lastStart \in {"rejected", "accepted_unconfirmed"})
          => /\ hist'.lastStart = "rejected"
             /\ session' = session
             /\ active_sessions' = active_sessions
             /\ pc' = pc
             /\ proc' = proc]_vars

\* C1 witness: an unconfirmed request was made and rejected, and there is no
\* session and no task.
C1_Witness ==
    /\ hist.lastStart = "rejected"
    /\ ~session.exists
    /\ ~active_sessions
    /\ pc.retry = "none"

\* C2 (as claimed): when every attempt reached the capture and every capture
\* exited non-zero, the finished run has made exactly max_retries attempts
\* and the status is FAILED.
C2_AlwaysFailingCaptureIsRetried ==
    (/\ pc.retry = "done"
     /\ pc.monitor = "done"
     /\ ~hist.stopCalled
     /\ hist.launches >= 1
     /\ hist.launches = hist.attempts
     /\ proc.state = "exited"
     /\ proc.returncode # 0)
    => (hist.attempts = options.max_retries /\ session.status = FAILED)

\* C3: every backoff sleep follows a failed attempt n with 1 <= n <
\* max_retries and lasts retry_base_delay * 2^(n-1); a retry task that is
\* sleeping has slept the delay of its current attempt; nothing is slept
\* after the last attempt.
C3_BackoffDelays ==
    /\ \A r \in hist.slept :
         /\ 1 <= r.n
         /\ r.n < options.max_retries
         /\ r.delay = options.retry_base_delay * (2 ^ (r.n - 1))
    /\ pc.retry = "backoff" => \E r \in hist.slept : r.n = session.retry_count
    /\ Cardinality(hist.slept) <= session.retry_count

\* C3 witness: the sleeps after the failed attempts 1 and 2 of a request with
\* base delay 5 have happened.
C3_Witness ==
    /\ options.retry_base_delay = 5
    /\ [n |-> 1, delay |-> 5] \in hist.slept
    /\ [n |-> 2, delay |-> 10] \in hist.slept

\* C4 (as claimed): after an attempt ended on PasswordRequired (a password
\* input on the page, no password to give) no further attempt is started.
C4_PasswordRequiredIsNotRetried ==
    [][hist.lastFail = "password_required"
       => hist'.attempts = hist.attempts]_vars

\* C5 (as claimed): a stop request that found the session RECORDING with its
\* capture subprocess ends, once the stop call has returned and the tasks are
\* at rest, with status STOPPED and no running capture subprocess.
C5_StopWhileRecordingEndsStopped ==
    (/\ hist.stopCalled
     /\ hist.stopAt = RECORDING
     /\ hist.stopProc = "running"
     /\ hist.stopRet # "pending"
     /\ pc.retry = "done"
     /\ pc.monitor \in {"none", "done"})
    => (session.status = STOPPED /\ proc.state # "running")

\* C6 (as claimed): a stop request issued while the session is authenticating,
\* waiting for the manifest or sleeping between attempts, before any capture
\* subprocess exists, is honoured and cancels the session: no further attempt
\* and no capture subprocess afterwards.
PreCapturePhases ==
    {"auth_refresh", "auth_goto", "auth_barriers", "auth_wait", "auth_cookies",
     "fb_browser", "fb_goto", "fb_wait", "backoff"}

C6_StopBeforeCaptureCancels ==
    (/\ hist.stopCalled
     /\ hist.stopProc = "none"
     /\ hist.stopPhase \in PreCapturePhases)
    => (/\ hist.stopRet # "false"
        /\ hist.attempts = hist.stopAttempts
        /\ hist.launches = 0
        /\ pc.retry # "launch")

\* C7 (as claimed): the manifest wait returns the URL of the first response
\* whose URL contains '.m3u8', whatever matching responses follow.
C7_FirstMatchWins ==
    (watch.pc = "returned" /\ watch.first # NoUrl)
    => watch.result = watch.first

\* C8 (as claimed): with no matching response the manifest wait returns null,
\* not before the timeout and at most one polling interval after it.
C8_TimeoutReturnsNullInTime ==
    (watch.pc = "returned" /\ watch.first = NoUrl)
    => (/\ watch.result = NoUrl
        /\ watch.elapsed >= watch.timeout
        /\ watch.elapsed <= watch.timeout + wait_interval)

C10_StatusOrder ==
    [][pc'.retry # pc.retry
       => /\ (session'.status = RECORDING /\ session.status # RECORDING)
                => session.status = WAITING_FOR_STREAM
          /\ (session'.status = AUTHENTICATING /\ session.status # AUTHENTICATING)
                => session.status = BROWSER_STARTING]_vars

\* C11 (as claimed): once the session has a terminal status and its tasks are
\* at rest, no browser context opened for it is still open and its profile
\* directory is gone; and an attempt that starts its browser after an earlier
\* attempt failed finds no context of an earlier attempt still open.
C11_ContextsReleased ==
    /\ (/\ session.exists
        /\ session.status \in {COMPLETED, STOPPED, FAILED}
        /\ pc.retry = "done"
        /\ pc.monitor \in {"none", "done"}
        /\ pc.stop = "idle")
       => (/\ session.browser_context \in {"none", "closed"}
           /\ ~hist.orphaned
           /\ ~session.session_dir)
    /\ pc.retry = "fb_browser" => session.browser_context # "open"

\* C12 (as claimed): at no time do two users of the shared profile directory
\* (two recording sessions, or a cookie refresh and a recording session) hold
\* an open persistent context on it.
C12_OneContextPerProfile ==
    Cardinality({u \in ProfileUsers : profile[u] \in ProfileOpen}) <= 1

\* C13 (as claimed): the number of sessions in the orchestrator's registry
\* never exceeds max_concurrent_recordings.
C13_ConcurrencyLimit ==
    Cardinality(DOMAIN orch.active) <= orch.max

\* C14 (as claimed): the session is in active_sessions while its attempts are
\* pending or running (no stop requested), and is no longer there once it has
\* a terminal status and its tasks are at rest.
C14_RegisteredUntilTerminal ==
    /\ (/\ session.exists
        /\ pc.retry \notin {"none", "done"}
        /\ ~hist.stopCalled)
       => active_sessions
    /\ (/\ session.exists
        /\ session.status \in {COMPLETED, STOPPED, FAILED}
        /\ pc.retry = "done"
        /\ pc.monitor \in {"none", "done"}
        /\ pc.stop = "idle")
       => ~active_sessions

\* C15 (as claimed): a capture subprocess that exited with code 0 without
\* leaving its output file does not end in a session marked COMPLETED.
C15_MissingOutputIsFailure ==
    (/\ pc.monitor \in {"cleanup", "done"}
     /\ proc.state = "exited"
     /\ proc.returncode = 0
     /\ ~proc.output_file
     /\ ~hist.stopCalled)
    => session.status # COMPLETED

\* C16 (as claimed): once the session has a terminal status and its tasks are
\* at rest, its transient cookie file has been deleted.
C16_CookieFileDeleted ==
    (/\ session.exists
     /\ session.status \in {COMPLETED, STOPPED, FAILED}
     /\ pc.retry = "done"
     /\ pc.monitor \in {"none", "done"}
     /\ pc.stop = "idle")
    => ~session.cookie_file

\* C17: needs_refresh() answers true when there is no cached cookie file,
\* false when asked right after a login that persisted the cookies, and true
\* when the cached file is older than the refresh interval of 24 hours.
C17_NeedsRefresh ==
    cred.event = "asked"
    => /\ ~cred.exists => cred.answer
       /\ cred.prev = "saved" => ~cred.answer
       /\ (cred.exists /\ cred.now - cred.mtime > 24) => cred.answer

\* C17 witness: cookies persisted by a login are 25 hours old and
\* needs_refresh() has answered true.
C17_Witness ==
    /\ cred.event = "asked"
    /\ cred.savedOk
    /\ cred.exists
    /\ cred.now - cred.mtime = 25
    /\ cred.answer

\* C18 (as claimed): an attempt whose credential refresh failed does not go on
\* to the stream page, the manifest wait or the capture launch, and does not
\* reach RECORDING.
C18_RefreshFailureEndsAttempt ==
    hist.refreshed = "failed"
    => /\ pc.retry \notin {"auth_goto", "auth_barriers", "auth_wait",
                           "auth_cookies", "launch"}
       /\ session.status # RECORDING

\* C19 (as claimed): an attempt that met a password input without a password
\* to give does not proceed to the manifest wait, on either path.
C19_PasswordMissingStopsAttempt ==
    hist.barrier = "password_missing"
    => /\ pc.retry \notin {"auth_wait", "fb_wait"}
       /\ hist.waitOutcome = "none"

\* C20 (as claimed): a session that ended FAILED after its last attempt failed
\* before any capture ran has last_error set.
C20_LastErrorSet ==
    (/\ session.exists
     /\ pc.retry = "done"
     /\ ~pc.ret
     /\ session.status = FAILED
     /\ hist.attempts >= 1
     /\ hist.attempts = options.max_retries
     /\ hist.launches = 0
     /\ ~hist.stopCalled)
    => session.last_error

\* C21 (as claimed): once the recording started by the single-URL command has
\* completed or failed in the engine, the command's wait loop eventually ends,
\* with no signal needed.
C21_CommandReturns ==
    (cli.engine \in {"completed", "failed"}) ~> (cli.pc = "returned")

\* C22: two RecordingOptions that differ only in their non-empty password have
\* the same repr, and in it the password field reads '***'.
C22_ReprMasksPassword ==
    (/\ dump.pc = "dumped"
     /\ Truthy(dump.a.password)
     /\ Truthy(dump.b.password)
     /\ [dump.a EXCEPT !.password = dump.b.password] = dump.b)
    => /\ dump.repr_a = dump.repr_b
       /\ dump.repr_a[2] = <<"password", PyReprStr("***")>>

C22_Witness ==
    /\ dump.pc = "dumped"
    /\ dump.a.password = <<"hunter2">>
    /\ dump.b.password = <<"pw">>
    /\ [dump.a EXCEPT !.password = dump.b.password] = dump.b
    /\ dump.repr_a = dump.repr_b

\* C23 (as claimed): a cookie list with distinct (domain, path, name), written
\* by any of the serializers and read back, gives the documented fields of its
\* cookies.
C23_RoundTrip ==
    jar.pc = "parsed" => jar.parsed = {Documented(c) : c \in jar.cookies}

\* C24 (as claimed): with no analysis result, _determine_auth_requirement is
\* true for g: and c: urls and false for every ordinary channel url, whatever
\* words the channel name contains.
C24_AuthRequirement ==
    (route.pc = "answered" /\ route.analysis = "absent")
    => (route.answer <=> route.url.prefix \in {"g:", "c:"})

\* C25: a stop request that finds a capture subprocess signals termination
\* first; the kill is sent only to a terminated process that is still running
\* when the 10 seconds of grace have passed; stop_recording answers True only
\* once the process has exited.
C25_GracefulThenForced ==
    /\ [][proc'.signalled # proc.signalled /\ proc'.signalled # "none"
          => \/ /\ proc.signalled = "none"
                /\ proc'.signalled = "term"
             \/ /\ proc.signalled = "term"
                /\ proc'.signalled = "kill"
                /\ proc.state = "running"
                /\ pc.stop = "wait"
                /\ pc.grace = stop_grace]_vars
    /\ [](pc.stop \in {"wait", "kill_wait"} /\ hist.stopProc = "running"
          => proc.signalled \in {"term", "kill"})
    /\ [](hist.stopRet = "true" /\ hist.stopProc # "none"
          => proc.state = "exited")

C25_Witness ==
    /\ hist.stopRet = "true"
    /\ hist.stopProc = "running"
    /\ proc.signalled = "kill"
    /\ proc.state = "exited"

\* C26 (as claimed): within an attempt the stages run in the order credential
\* refresh, barrier passing, manifest wait, cookie snapshot, capture launch:
\* the barriers are handled after the refresh, the wait begins after the
\* barrier handling, the snapshot is taken after the wait has ended, and the
\* capture is started after the snapshot and only when the barriers were passed.
C26_StageOrder ==
    /\ pc.retry \in {"auth_barriers", "auth_wait", "auth_cookies"}
          => hist.refreshed # "none"
    /\ pc.retry \in {"auth_wait", "fb_wait"} => hist.barrier # "none"
    /\ pc.retry \in {"auth_cookies", "fb_cookies"} => hist.waitOutcome # "none"
    /\ pc.retry = "launch"
          => /\ hist.waitOutcome # "none"
             /\ hist.barrier = "passed"

\* C27: whenever stop_recording and _monitor_recording_process have both
\* cleaned up the same session, in any interleaving, no exception was raised
\* in either cleanup, the session's entry is gone from active_sessions and the
\* entries of the other sessions are the ones that were there.
C27_IdempotentRemoval ==
    /\ (registry.stop = "done" /\ registry.monitor = "done")
          => /\ ~registry.error
             /\ "s1" \notin registry.active
             /\ registry.active = registry.initial \ {"s1"}
    /\ ~registry.error
    /\ registry.active \ {"s1"} = registry.initial \ {"s1"}

\* both cleanups overlapped at the awaited close() and another session is
\* registered
C27_Witness ==
    /\ registry.stop = "done"
    /\ registry.monitor = "done"
    /\ registry.overlapped
    /\ registry.active = {"s2"}
    /\ registry.initial = {"s1", "s2"}

\* C28: auto_refresh_if_needed runs no backend and returns True when the
\* cookies are not stale; when they are stale it runs Playwright first,
\* Selenium only after Playwright returned False, and returns True exactly when
\* one of the backends it ran returned True.
C28_RefreshIfNeeded ==
    cred.call.name = "auto_refresh_if_needed"
    => LET log == cred.call.log IN
       IF ~cred.call.stale
       THEN log = <<>> /\ cred.call.ret
       ELSE /\ Len(log) \in {1, 2}
            /\ log[1].backend = "playwright"
            /\ Len(log) = 2 => (log[2].backend = "selenium" /\ ~log[1].ok)
            /\ cred.call.ret <=> \E i \in 1..Len(log) : log[i].ok

\* stale cookies, Playwright failed, Selenium succeeded
C28_Witness ==
    /\ cred.call.name = "auto_refresh_if_needed"
    /\ cred.call.stale
    /\ Len(cred.call.log) = 2
    /\ ~cred.call.log[1].ok
    /\ cred.call.log[2].ok
    /\ cred.call.ret

C30_AtomicPersist ==
    /\ cookie_file.seen_task \cap {"empty", "partial"} = {}
    /\ cookie_file.seen_process \cap {"empty", "partial"} = {}

\* C31 (as claimed): when the browser session cannot be acquired or the page
\* cannot be opened in an attempt, the session's status is ERROR.
C31_BrowserFailureIsError ==
    hist.lastFail \in {"browser_start", "new_page"} => session.status = ERROR

C33_RunningIsRegistered ==
    proc.state = "running" => active_sessions

\* C34 (as claimed): at every suspension point at which the session's status
\* is RECORDING, session.process holds the handle of a capture subprocess.
C34_RecordingHasProcess ==
    session.status = RECORDING => session.process

\* C35 (as claimed): once shutdown() has returned, the session is not in
\* active_sessions, its capture subprocess is not running, and no capture
\* subprocess is created for it afterwards.
ShutdownReturned ==
    hist.stopBy = "shutdown" /\ hist.stopRet \in {"true", "false"}

C35_ShutdownIsFinal ==
    /\ [](ShutdownReturned => (~active_sessions /\ proc.state # "running"))
    /\ [][ShutdownReturned => hist'.launches = hist.launches]_vars

\* C36 (as claimed): once the session's status is COMPLETED no step changes it.
C36_CompletedIsFinal ==
    [][session.status = COMPLETED => session'.status = COMPLETED]_vars

\* C37 (as claimed): when an attempt passes the barriers, the password it
\* hands to the barrier passing is the password of the session's request: one
\* is handed over exactly when the request has one.
C37_RequestPasswordOnly ==
    pc.retry = "auth_barriers" => (stream_passwords <=> options.password)

\* C38 (as claimed): a start_recording call that registers its session does
\* so under a session_id that no entry of the registry has at that moment.
C38_FreshSessionId ==
    [][\A c \in Callers :
          (orch.call[c] # "delegating" /\ orch'.call[c] = "delegating")
          => orch'.sid[c] \notin DOMAIN orch.active]_vars

\* C39 (as claimed): the registry never holds two sessions for the same url.
C39_OneSessionPerUrl ==
    \A k1, k2 \in DOMAIN orch.active :
        orch.active[k1] = orch.active[k2] => k1 = k2

\* C40 (as claimed): a recording of the basic engine is never in both result
\* lists or twice in one, and once its task is over (the capture process has
\* ended and _finalize_recording has run) its url is no longer in
\* active_recordings and it is in exactly one of completed_recordings and
\* failed_recordings.
C40_FinalisedOnce ==
    \A u \in Urls :
        /\ rec[u].completed + rec[u].failed <= 1
        /\ rec[u].task = "done"
           => (~rec[u].active /\ rec[u].completed + rec[u].failed = 1)

====
